---- MODULE Spec2Model ----
(***************************************************************************)
(* Nested binary column decoder of arrow2's parquet reader                 *)
(* (src/io/parquet/read/deserialize/binary/nested.rs): the page decode     *)
(* state built by BinaryDecoder::build_state, the push_valid / push_null   *)
(* accumulation contract, and the chunked ArrayIterator driver.            *)
(***************************************************************************)
EXTENDS Integers, Sequences, FiniteSets, TLC

\* ------------------------------------------------------------------ bounds
MaxIndex    == 3   \* dictionary indices of a page range over 0..MaxIndex
MaxIdxLen   == 3   \* longest index stream of a dictionary page
MaxPlainLen == 2   \* most plain-encoded values in a page
MaxPush     == 4   \* most push_valid / push_null calls on one page
MaxPages    == 2   \* most pages the upstream source yields
MaxChunk    == 3   \* largest configured chunk_size
MaxExhaustedCalls == 2  \* calls of next explored after the source has ended
MaxDepth == MaxPages + 2  \* activations of next explored in one call

\* ------------------------------------------------------------- page inputs
Encodings == {"Plain", "PlainDictionary", "RleDictionary", "DeltaByteArray"}

\* a dictionary page as the decoder sees it: its concrete type and, for the
\* binary dictionary, the flat value buffer and the offsets delimiting entries
NoDict      == [type |-> "none", values |-> << >>, offsets |-> << >>]
WrongDict   == [type |-> "primitive", values |-> << >>, offsets |-> << >>]
ExampleDict == [type |-> "binary", values |-> <<97, 98, 98, 99, 99, 99>>,
                offsets |-> <<0, 1, 3, 6>>]
SmallDict   == [type |-> "binary", values |-> <<98>>, offsets |-> <<0, 0, 1>>]
BinaryDicts == {ExampleDict, SmallDict}
Dicts       == {NoDict, WrongDict} \cup BinaryDicts

ByteStrings == {<< >>, <<97>>, <<98, 98>>}

SeqsUpTo(S, n) == UNION {[1..k -> S] : k \in 0..n}

\* ----------------------------------------------------------- plain encoding
\* a plain-encoded value is its length as a little-endian u32 and its bytes
LenPrefix(n) ==
  <<n % 256, (n \div 256) % 256, (n \div 65536) % 256, (n \div 16777216) % 256>>

RECURSIVE PlainEncode(_)
PlainEncode(vs) ==
  IF vs = << >> THEN << >>
  ELSE LenPrefix(Len(Head(vs))) \o Head(vs) \o PlainEncode(Tail(vs))

\* BinaryIter::next: None on an empty buffer, else the next length-prefixed
\* value and the rest of the buffer
BinaryIterNext(buf) ==
  IF buf = << >> THEN [some |-> FALSE, value |-> << >>, rest |-> << >>]
  ELSE LET length == buf[1] + 256 * buf[2] + 65536 * buf[3] + 16777216 * buf[4]
           body   == SubSeq(buf, 5, Len(buf))
       IN  [some  |-> TRUE,
            value |-> SubSeq(body, 1, length),
            rest  |-> SubSeq(body, length + 1, Len(body))]

\* the values a buffer still holds, in order (size_hint / collect)
RECURSIVE BinaryIterAll(_)
BinaryIterAll(buf) ==
  IF buf = << >> THEN << >>
  ELSE <<BinaryIterNext(buf).value>> \o BinaryIterAll(BinaryIterNext(buf).rest)

\* --------------------------------------------------------------- the pages
\* encoding(), dictionary_page(), descriptor repetition, selected_rows(),
\* whether the page splits into its sub-buffers, and the value sub-buffer:
\* plain-encoded bytes or the decoded index stream
Page(enc, dict, opt, filt, split, buf, idx) ==
  [encoding |-> enc, dict |-> dict, optional |-> opt, filtered |-> filt,
   splitOk |-> split, buffer |-> buf, indices |-> idx]

PlainBuffers == {PlainEncode(vs) : vs \in SeqsUpTo(ByteStrings, MaxPlainLen)}
IndexStreams == SeqsUpTo(0..MaxIndex, MaxIdxLen)

\* ------------------------------------------------------------- build_state
Ok(s)      == [tag |-> "Ok", state |-> s, err |-> "none"]
Err(e)     == [tag |-> "Err", state |-> "none", err |-> e]
Panic      == [tag |-> "Panic", state |-> "none", err |-> "none"]
NoResult   == [tag |-> "None", state |-> "none", err |-> "none"]

State(kind, buf, dict, idx) ==
  [kind |-> kind, values |-> buf, dict |-> dict, indices |-> idx]

IsDictEncoding(enc) == enc \in {"PlainDictionary", "RleDictionary"}

\* utils::not_implemented(page)
not_implemented == Err("UnsupportedEncodingCombination")

\* ValuesDictionary::try_new(page, dict): decodes the page's index stream
ValuesDictionary_try_new(page, kind) ==
  IF page.splitOk THEN Ok(State(kind, << >>, page.dict, page.indices))
  ELSE Err("UpstreamPageError")

\* dict.as_any().downcast_ref().unwrap()
downcast_unwrap_ok(dict) == dict.type = "binary"

\* the match on (encoding, dictionary_page, is_optional, is_filtered): the
\* arm taken, first match wins
match_arm_unfiltered(enc, hasDict, opt, filt) ==
  IF IsDictEncoding(enc) /\ hasDict /\ ~opt THEN "RequiredDictionary"
  ELSE IF IsDictEncoding(enc) /\ hasDict /\ opt THEN "OptionalDictionary"
  ELSE IF enc = "Plain" /\ opt THEN "Optional"
  ELSE IF enc = "Plain" /\ ~opt THEN "Required"
  ELSE "not_implemented"

match_arm(enc, hasDict, opt, filt) ==
  IF IsDictEncoding(enc) /\ hasDict /\ ~opt /\ ~filt THEN "RequiredDictionary"
  ELSE IF IsDictEncoding(enc) /\ hasDict /\ opt /\ ~filt THEN "OptionalDictionary"
  ELSE IF enc = "Plain" /\ opt /\ ~filt THEN "Optional"
  ELSE IF enc = "Plain" /\ ~opt /\ ~filt THEN "Required"
  ELSE "not_implemented"

build_state(page) ==
  LET arm == match_arm(page.encoding, page.dict.type # "none",
                       page.optional, page.filtered)
  IN  CASE arm \in {"RequiredDictionary", "OptionalDictionary"} ->
             IF downcast_unwrap_ok(page.dict)
             THEN ValuesDictionary_try_new(page, arm)
             ELSE Panic
        [] arm \in {"Optional", "Required"} ->
             \* split_buffer(page)?
             IF page.splitOk THEN Ok(State(arm, page.buffer, NoDict, << >>))
             ELSE Err("UpstreamPageError")
        [] OTHER -> not_implemented

\* ------------------------------------------------------------ accumulators
\* Binary<O>: flat byte buffer and offsets; push appends the bytes and the
\* new last offset
Binary_with_capacity == [values |-> << >>, offsets |-> <<0>>]

Binary_push(b, v) ==
  [values  |-> b.values \o v,
   offsets |-> Append(b.offsets, b.offsets[Len(b.offsets)] + Len(v))]

Binary_len(b) == Len(b.offsets) - 1

Binary_get(b, i) == SubSeq(b.values, b.offsets[i] + 1, b.offsets[i + 1])

with_capacity_no_first_offset ==
  [values |-> [values |-> << >>, offsets |-> << >>], validity |-> << >>]

with_capacity == [values |-> Binary_with_capacity, validity |-> << >>]

\* ---------------------------------------------------- push_valid, push_null
PushOk(s, d) == [tag |-> "Ok", state |-> s, decoded |-> d]
PushPanic(s, d) == [tag |-> "Panic", state |-> s, decoded |-> d]

\* the closure op: index -> &dict_values[offsets[index]..offsets[index + 1]];
\* slice indexing out of bounds panics
DictInRange(dict, index) ==
  /\ index + 1 < Len(dict.offsets)
  /\ dict.offsets[index + 1] <= dict.offsets[index + 2]
  /\ dict.offsets[index + 2] <= Len(dict.values)

DictEntry_from_start(dict, index) ==
  SubSeq(dict.values, dict.offsets[1] + 1, dict.offsets[index + 2])

DictEntry(dict, index) ==
  SubSeq(dict.values, dict.offsets[index + 1] + 1, dict.offsets[index + 2])

push_valid_plain_no_advance(state, decoded, pushBit) ==
  LET n     == BinaryIterNext(state.values)
      value == IF n.some THEN n.value ELSE << >>
  IN  PushOk(state,
             [values |-> Binary_push(decoded.values, value),
              validity |-> IF pushBit THEN Append(decoded.validity, TRUE)
                           ELSE decoded.validity])

push_valid_plain_always_bit(state, decoded, pushBit) ==
  LET n     == BinaryIterNext(state.values)
      value == IF n.some THEN n.value ELSE << >>
  IN  PushOk([state EXCEPT !.values = n.rest],
             [values |-> Binary_push(decoded.values, value),
              validity |-> Append(decoded.validity, TRUE)])

push_valid_plain(state, decoded, pushBit) ==
  LET n     == BinaryIterNext(state.values)
      value == IF n.some THEN n.value ELSE << >>
      vals  == Binary_push(decoded.values, value)
  IN  PushOk([state EXCEPT !.values = n.rest],
             [values |-> vals,
              validity |-> IF pushBit THEN Append(decoded.validity, TRUE)
                           ELSE decoded.validity])

push_valid_dict_exhausted_skips(state, decoded, pushBit) ==
  IF state.indices = << >> THEN PushOk(state, decoded)
  ELSE LET index == Head(state.indices)
           rest  == [state EXCEPT !.indices = Tail(state.indices)]
       IN  IF ~DictInRange(state.dict, index) THEN PushPanic(rest, decoded)
           ELSE PushOk(rest,
                  [values |-> Binary_push(decoded.values,
                                          DictEntry(state.dict, index)),
                   validity |-> IF pushBit THEN Append(decoded.validity, TRUE)
                                ELSE decoded.validity])

push_valid_dict(state, decoded, pushBit) ==
  IF state.indices = << >>
  THEN PushOk(state,
              [values |-> Binary_push(decoded.values, << >>),
               validity |-> IF pushBit THEN Append(decoded.validity, TRUE)
                            ELSE decoded.validity])
  ELSE LET index == Head(state.indices)
           rest  == [state EXCEPT !.indices = Tail(state.indices)]
       IN  IF ~DictInRange(state.dict, index) THEN PushPanic(rest, decoded)
           ELSE PushOk(rest,
                  [values |-> Binary_push(decoded.values,
                                          DictEntry(state.dict, index)),
                   validity |-> IF pushBit THEN Append(decoded.validity, TRUE)
                                ELSE decoded.validity])

push_valid(state, decoded) ==
  CASE state.kind = "Optional" -> push_valid_plain(state, decoded, TRUE)
    [] state.kind = "Required" -> push_valid_plain(state, decoded, FALSE)
    [] state.kind = "RequiredDictionary" -> push_valid_dict(state, decoded, FALSE)
    [] state.kind = "OptionalDictionary" -> push_valid_dict(state, decoded, TRUE)

push_null_no_bit(decoded) ==
  [values |-> Binary_push(decoded.values, << >>),
   validity |-> decoded.validity]

push_null_zero_byte(decoded) ==
  [values |-> Binary_push(decoded.values, <<0>>),
   validity |-> Append(decoded.validity, FALSE)]

push_null(decoded) ==
  [values |-> Binary_push(decoded.values, << >>),
   validity |-> Append(decoded.validity, FALSE)]

\* ------------------------------------------------------------------- state
VARIABLES
  page,     \* the page the current decode state was built from
  state,    \* the page decode state (State<'a>), or NoState
  decoded,  \* the accumulators (Binary<O>, MutableBitmap)
  built,    \* what the last build_state returned
  outcome,  \* how the last push ended: "None", "Ok", "Panic"
  ops,      \* the pushes completed on this page: "V" push_valid, "N" push_null
  iter,        \* the upstream page source: pages pulled, and whether it ended
  items,       \* the pending queue of (NestedState, (Binary<O>, MutableBitmap))
  chunk_size,  \* Option<usize>: NoChunkSize for None, else the positive size
  data_type,   \* whether finish accepts the iterator's data_type
  is_optional, \* the repetition of the column descriptor every page carries
  result,      \* what the last call of ArrayIterator::next returned
  returned,    \* every result returned so far, oldest first
  depth,       \* nested activations of ArrayIterator::next now on the stack
  decodedRows, \* the rows of the pages decoded so far, in decode order
  decodedPages \* the pages decoded so far, in decode order

decVars == <<page, state, decoded, built, outcome, ops>>
iterVars == <<iter, items, chunk_size, data_type, is_optional, result,
              returned, depth, decodedRows, decodedPages>>
vars == <<page, state, decoded, built, outcome, ops, iter, items, chunk_size,
          data_type, is_optional, result, returned, depth, decodedRows,
          decodedPages>>

NoPage  == Page("Plain", NoDict, FALSE, FALSE, TRUE, << >>, << >>)
NoState == State("None", << >>, NoDict, << >>)

\* the pages handed to build_state: every (encoding, dictionary, optional,
\* filtered, splits) tuple, and every payload for the tuples that decode
DecoderPages ==
  {Page(enc, d, opt, filt, split, << >>, << >>) :
     enc \in Encodings, d \in Dicts, opt \in BOOLEAN, filt \in BOOLEAN,
     split \in BOOLEAN}
  \cup {Page("Plain", d, opt, FALSE, TRUE, buf, << >>) :
     d \in Dicts, opt \in BOOLEAN, buf \in PlainBuffers}
  \cup {Page(enc, d, opt, FALSE, TRUE, << >>, idx) :
     enc \in {"PlainDictionary", "RleDictionary"}, d \in BinaryDicts,
     opt \in BOOLEAN, idx \in IndexStreams}

NoChunkSize == 0

NotCalled == [tag |-> "NotCalled", err |-> "none", rows |-> << >>,
              decoded |-> with_capacity]

\* ArrayIterator::new: nothing pulled, an empty pending queue
IterIdle ==
  /\ iter = [n |-> 0, done |-> FALSE]
  /\ items = << >>
  /\ result = NotCalled
  /\ returned = << >>
  /\ depth = 0
  /\ decodedRows = << >>
  /\ decodedPages = << >>

DecInit ==
  /\ chunk_size = NoChunkSize
  /\ data_type = TRUE
  /\ is_optional = FALSE
  /\ page = NoPage
  /\ state = NoState
  /\ decoded = with_capacity
  /\ built = NoResult
  /\ outcome = "None"
  /\ ops = << >>
  /\ IterIdle

\* decoder.build_state(page)
BuildState ==
  /\ built.tag = "None"
  /\ \E p \in DecoderPages :
       /\ page' = p
       /\ built' = build_state(p)
       /\ state' = IF built'.tag = "Ok" THEN built'.state ELSE NoState
  /\ UNCHANGED <<decoded, outcome, ops>>
  /\ UNCHANGED iterVars

\* decoder.push_valid(&mut state, &mut decoded)
PushValid ==
  /\ state # NoState
  /\ outcome # "Panic"
  /\ Len(ops) < MaxPush
  /\ LET r == push_valid(state, decoded)
     IN  /\ outcome' = r.tag
         /\ state' = r.state
         /\ decoded' = r.decoded
         /\ ops' = IF r.tag = "Ok" THEN Append(ops, "V") ELSE ops
  /\ UNCHANGED <<page, built>>
  /\ UNCHANGED iterVars

PushNull_advances ==
  /\ state # NoState
  /\ outcome # "Panic"
  /\ Len(ops) < MaxPush
  /\ decoded' = push_null(decoded)
  /\ outcome' = "Ok"
  /\ ops' = Append(ops, "N")
  /\ state' = [state EXCEPT
                 !.indices = IF @ = << >> THEN @ ELSE Tail(@),
                 !.values = BinaryIterNext(@).rest]
  /\ UNCHANGED <<page, built>>
  /\ UNCHANGED iterVars

\* decoder.push_null(&mut decoded)
PushNull ==
  /\ state # NoState
  /\ outcome # "Panic"
  /\ Len(ops) < MaxPush
  /\ decoded' = push_null(decoded)
  /\ outcome' = "Ok"
  /\ ops' = Append(ops, "N")
  /\ UNCHANGED <<page, state, built>>
  /\ UNCHANGED iterVars

DecNext == BuildState \/ PushValid \/ PushNull

SpecDecoder == DecInit /\ [][DecNext]_vars

\* -------------------------------------------------------------- the driver
\* the nested shape of a page: its rows, each with its leaf slots in order
\* (TRUE a valid slot, FALSE a null slot); a row may hold no slot or several
RowCounts == {1, 2, 4}

RowSlots(r) ==
  CASE r % 4 = 1 -> <<TRUE>>
    [] r % 4 = 2 -> <<TRUE, FALSE>>
    [] r % 4 = 3 -> << >>
    [] OTHER     -> <<TRUE>>

Shape(n) == [r \in 1..n |-> RowSlots(r)]

DriverPage(enc, dict, opt, filt, split, n) ==
  [encoding |-> enc, dict |-> dict, optional |-> opt, filtered |-> filt,
   splitOk |-> split,
   buffer |-> PlainEncode(<<<<97>>, <<98, 98>>, <<97>>>>),
   indices |-> <<2, 0, 1>>,
   rows |-> Shape(n)]

\* pages that decode, of every row count
SupportedPages(opt) ==
  {DriverPage("Plain", NoDict, opt, FALSE, TRUE, n) : n \in RowCounts}
  \cup {DriverPage("RleDictionary", ExampleDict, opt, FALSE, TRUE, n) :
          n \in RowCounts}

\* every (encoding, dictionary, filtered) tuple build_state rejects, and the
\* supported pages whose buffer does not split
RejectedPages(opt) ==
  {p \in {DriverPage(enc, d, opt, filt, TRUE, 1) :
            enc \in Encodings, d \in Dicts, filt \in BOOLEAN} :
     build_state(p).tag # "Ok"}
  \cup {DriverPage("Plain", NoDict, opt, FALSE, FALSE, 1),
        DriverPage("RleDictionary", ExampleDict, opt, FALSE, FALSE, 1)}

DriverPages(opt) == SupportedPages(opt) \cup RejectedPages(opt)

\* what iter.next() gives: the end of the source, an error, or a page
SourceNone == [kind |-> "none", page |-> NoPage]
SourceErr  == [kind |-> "err", page |-> NoPage]
SourcePage(p) == [kind |-> "page", page |-> p]

Min(a, b) == IF a <= b THEN a ELSE b

\* the one element of a singleton set: {f(x) : x \in {e}} evaluates e once
Only(S) == CHOOSE v \in S : TRUE

RECURSIVE Flatten(_)
Flatten(rows) ==
  IF rows = << >> THEN << >> ELSE Head(rows).slots \o Flatten(Tail(rows))

\* the pushes the nested shape asks for, slot by slot
RECURSIVE PushSlots(_, _, _)
PushSlots(st, d, slots) ==
  IF slots = << >> THEN PushOk(st, d)
  ELSE Only({IF r.tag = "Panic" THEN r
             ELSE PushSlots(r.state, r.decoded, Tail(slots)) :
               r \in {IF Head(slots) THEN push_valid(st, d)
                      ELSE PushOk(st, push_null(d))}})

EmptyChunk == [nested |-> << >>, decoded |-> with_capacity]

\* rows a chunk still takes: all of them when no chunk size is configured
Remaining(c, have, avail) == IF c = NoChunkSize THEN avail ELSE c - have

\* extend_offsets2: decode up to `additional` rows of the page into a chunk
extend_offsets2(rows, st, chunk, additional) ==
  LET k     == Min(additional, Len(rows))
      taken == SubSeq(rows, 1, k)
  IN  Only({[tag   |-> r.tag,
             state |-> r.state,
             chunk |-> [nested |-> chunk.nested \o taken,
                        decoded |-> r.decoded],
             rest  |-> SubSeq(rows, k + 1, Len(rows))] :
              r \in {PushSlots(st, chunk.decoded, Flatten(taken))}})

\* fill the chunk in progress, then open new chunks while the page has rows
RECURSIVE ExtendLoop(_, _, _, _, _)
ExtendLoop(rows, st, chunk, acc, c) ==
  Only({IF e.tag = "Panic" THEN [tag |-> "Panic", err |-> "none", items |-> acc]
        ELSE IF e.rest = << >>
        THEN [tag |-> "Ok", err |-> "none", items |-> Append(acc, e.chunk)]
        ELSE ExtendLoop(e.rest, e.state, EmptyChunk, Append(acc, e.chunk), c) :
          e \in {extend_offsets2(rows, st, chunk,
                                 Remaining(c, Len(chunk.nested), Len(rows)))}})

\* extend: build the page's state, then decode the page into the queue
extend(p, rows, its, c) ==
  Only({IF b.tag # "Ok" THEN [tag |-> b.tag, err |-> b.err, items |-> its]
        ELSE IF its = << >>
        THEN ExtendLoop(rows, b.state, EmptyChunk, << >>, c)
        ELSE ExtendLoop(rows, b.state, its[Len(its)],
                        SubSeq(its, 1, Len(its) - 1), c) :
          b \in {build_state(p)}})

\* MaybeNext
MaybeSomeOk(chunk) == [tag |-> "SomeOk", err |-> "none", chunk |-> chunk]
MaybeSomeErr(e)    == [tag |-> "SomeErr", err |-> e, chunk |-> EmptyChunk]
MaybeNone          == [tag |-> "None", err |-> "none", chunk |-> EmptyChunk]
MaybeMore          == [tag |-> "More", err |-> "none", chunk |-> EmptyChunk]
MaybePanic         == [tag |-> "Panic", err |-> "none", chunk |-> EmptyChunk]

\* a buffered chunk that is already complete
Complete(chunk, c) == c # NoChunkSize /\ Len(chunk.nested) >= c

Step(maybe, its, pulled) == [maybe |-> maybe, items |-> its, pulled |-> pulled]

\* next: one step of the driver, src being what the source gives if pulled
utils_next(its, src, rows, c) ==
  IF its # << >> /\ Complete(Head(its), c)
  THEN Step(MaybeSomeOk(Head(its)), Tail(its), FALSE)
  ELSE CASE src.kind = "err" -> Step(MaybeSomeErr("UpstreamPageError"), its, TRUE)
         [] src.kind = "none" ->
              IF its # << >> THEN Step(MaybeSomeOk(Head(its)), Tail(its), TRUE)
              ELSE Step(MaybeNone, its, TRUE)
         [] OTHER ->
              Only({IF e.tag = "Err" THEN Step(MaybeSomeErr(e.err), e.items, TRUE)
                    ELSE IF e.tag = "Panic" THEN Step(MaybePanic, e.items, TRUE)
                    ELSE IF Len(Head(e.items).nested) < c
                    THEN Step(MaybeMore, e.items, TRUE)
                    ELSE Step(MaybeSomeOk(Head(e.items)), Tail(e.items), TRUE) :
                      e \in {extend(src.page, rows, its, c)}})

\* finish(&self.data_type, decoded.0, decoded.1)
finish_ok(dt) == dt

Result(tag, e, chunk) ==
  [tag |-> tag, err |-> e, rows |-> [i \in 1..Len(chunk.nested) |-> chunk.nested[i].id],
   decoded |-> chunk.decoded]

\* the match on maybe_state of ArrayIterator::next
next_match_more_is_none(maybe, dt) ==
  CASE maybe.tag = "SomeOk" ->
         IF finish_ok(dt) THEN Result("Chunk", "none", maybe.chunk)
         ELSE Result("Err", "FinishError", maybe.chunk)
    [] maybe.tag = "SomeErr" -> Result("Err", maybe.err, EmptyChunk)
    [] maybe.tag = "None" -> Result("None", "none", EmptyChunk)
    [] maybe.tag = "More" -> Result("None", "none", EmptyChunk)
    [] OTHER -> Result("Panic", "none", EmptyChunk)

next_match_none_is_more(maybe, dt) ==
  CASE maybe.tag = "SomeOk" ->
         IF finish_ok(dt) THEN Result("Chunk", "none", maybe.chunk)
         ELSE Result("Err", "FinishError", maybe.chunk)
    [] maybe.tag = "SomeErr" -> Result("Err", maybe.err, EmptyChunk)
    [] maybe.tag = "None" -> Result("Recurse", "none", EmptyChunk)
    [] maybe.tag = "More" -> Result("Recurse", "none", EmptyChunk)
    [] OTHER -> Result("Panic", "none", EmptyChunk)

next_match(maybe, dt) ==
  CASE maybe.tag = "SomeOk" ->
         IF finish_ok(dt) THEN Result("Chunk", "none", maybe.chunk)
         ELSE Result("Err", "FinishError", maybe.chunk)
    [] maybe.tag = "SomeErr" -> Result("Err", maybe.err, EmptyChunk)
    [] maybe.tag = "None" -> Result("None", "none", EmptyChunk)
    [] maybe.tag = "More" -> Result("Recurse", "none", EmptyChunk)
    [] OTHER -> Result("Panic", "none", EmptyChunk)

Returned(r, d) ==
  [tag |-> r.tag, err |-> r.err, rows |-> r.rows, depth |-> d,
   decoded |-> r.decoded]

\* self.chunk_size as handed to the driver step
self_chunk_size_or_one == IF chunk_size = NoChunkSize THEN 1 ELSE chunk_size

self_chunk_size == chunk_size

\* the source: finite, and ended for good once it has reported its end
Sources ==
  IF iter.done \/ iter.n >= MaxPages THEN {SourceNone}
  ELSE {SourceNone, SourceErr}
         \cup {SourcePage(p) : p \in DriverPages(is_optional)}

\* the rows of the page pulled as the iter.n + 1 st, tagged by page and row
PageRows(src) ==
  IF src.kind = "page"
  THEN [r \in 1..Len(src.page.rows) |->
          [id |-> <<iter.n + 1, r>>, slots |-> src.page.rows[r]]]
  ELSE << >>

\* one activation of ArrayIterator::next, d activations deep
Activation(d) ==
  \E src \in Sources :
  \E s \in {utils_next(items, src, PageRows(src), self_chunk_size)} :
  \E r \in {next_match(s.maybe, data_type)} :
    LET decodedOk == s.pulled /\ src.kind = "page"
                       /\ s.maybe.tag \in {"SomeOk", "More"}
    IN  /\ items' = s.items
        /\ iter' = IF ~s.pulled THEN iter
                   ELSE IF src.kind = "none" THEN [iter EXCEPT !.done = TRUE]
                   ELSE [iter EXCEPT !.n = @ + 1]
        /\ page' = IF s.pulled THEN src.page ELSE page
        /\ built' = IF s.pulled /\ src.kind = "page" THEN build_state(src.page)
                    ELSE built
        /\ decodedRows' = IF decodedOk
                          THEN decodedRows \o [i \in 1..Len(PageRows(src)) |->
                                                 PageRows(src)[i].id]
                          ELSE decodedRows
        /\ decodedPages' = IF decodedOk THEN Append(decodedPages, src.page)
                           ELSE decodedPages
        /\ IF r.tag = "Recurse"
           THEN /\ depth' = d
                /\ UNCHANGED <<result, returned>>
           ELSE /\ depth' = 0
                /\ result' = r
                /\ returned' = Append(returned, Returned(r, d))
        /\ UNCHANGED <<state, decoded, outcome, ops, chunk_size, data_type,
                       is_optional>>

NumReturned(tag) == Cardinality({i \in 1..Len(returned) : returned[i].tag = tag})

\* the caller calls ArrayIterator::next
Next_call ==
  /\ depth = 0
  /\ result.tag # "Panic"
  /\ NumReturned("None") < MaxExhaustedCalls
  /\ Activation(1)

\* MaybeNext::More => self.next()
Next_more ==
  /\ depth >= 1
  /\ depth < MaxDepth
  /\ Activation(depth + 1)

Init ==
  /\ page = NoPage
  /\ state = NoState
  /\ decoded = with_capacity
  /\ built = NoResult
  /\ outcome = "None"
  /\ ops = << >>
  /\ chunk_size \in {NoChunkSize} \cup 1..MaxChunk
  /\ data_type \in BOOLEAN
  /\ is_optional \in BOOLEAN
  /\ IterIdle

Next == Next_call \/ Next_more

Spec == Init /\ [][Next]_vars

\* a call of next that has started runs on: the recursive call is taken
FairSpec == Spec /\ WF_vars(Next_more)

\* ------------------------------------------------- properties of the decoder
NumOf(os, c) == Cardinality({i \in 1..Len(os) : os[i] = c})

\* the slot the k-th push_valid of the page filled
NthValid(os, k) ==
  CHOOSE i \in 1..Len(os) :
    os[i] = "V" /\ Cardinality({j \in 1..i : os[j] = "V"}) = k

IsDictKind(kind) == kind \in {"RequiredDictionary", "OptionalDictionary"}
IsOptionalKind(kind) == kind \in {"Optional", "OptionalDictionary"}

IsPrefix(a, b) == Len(a) <= Len(b) /\ SubSeq(b, 1, Len(a)) = a

\* the decision table of the page decode state construction
DecisionTable(enc, hasDict, opt, filt) ==
  IF enc \in {"PlainDictionary", "RleDictionary"} /\ hasDict /\ ~filt
  THEN IF opt THEN "OptionalDictionary" ELSE "RequiredDictionary"
  ELSE IF enc = "Plain" /\ ~filt
  THEN IF opt THEN "Optional" ELSE "Required"
  ELSE "unsupported"

Expected == DecisionTable(page.encoding, page.dict.type # "none",
                          page.optional, page.filtered)

\* the arm's own fallible steps succeed: the page splits into its buffers
\* and a dictionary used by a dictionary arm is the binary dictionary
ArmBodySucceeds ==
  /\ page.splitOk
  /\ IsDictEncoding(page.encoding) => page.dict.type \in {"none", "binary"}

\* C1: build_state maps every (encoding, dictionary present, optional,
\* filtered) tuple as the decision table says: a tuple of the table's last
\* row fails with the unsupported error and yields no state; any other
\* tuple never gets the unsupported error, yields the table's state whenever
\* it yields one, and yields one whenever the arm's own steps succeed.
C1_DecisionTable ==
  built.tag # "None" =>
    IF Expected = "unsupported"
    THEN built = Err("UnsupportedEncodingCombination") /\ state = NoState
    ELSE /\ built.err # "UnsupportedEncodingCombination"
         /\ built.tag = "Ok" => built.state.kind = Expected
         /\ ArmBodySucceeds => built.tag = "Ok" /\ state.kind = Expected

C1_Witness ==
  /\ built.tag = "Ok"
  /\ state.kind = "RequiredDictionary"
  /\ page.encoding = "RleDictionary"
  /\ ~page.optional

\* C3: in a dictionary state the k-th push_valid appends the dictionary
\* entry values[offsets[i] .. offsets[i+1]] of the k-th index i of the
\* page's index stream.
C3_DictionaryResolution ==
  (state # NoState /\ IsDictKind(state.kind)) =>
    \A k \in 1..NumOf(ops, "V") :
      k <= Len(page.indices) =>
        LET i == page.indices[k]
        IN  Binary_get(decoded.values, NthValid(ops, k)) =
              SubSeq(page.dict.values, page.dict.offsets[i + 1] + 1,
                     page.dict.offsets[i + 2])

C3_Witness ==
  /\ state.kind = "RequiredDictionary"
  /\ page.dict = ExampleDict
  /\ page.indices = <<2, 0, 1>>
  /\ ops = <<"V", "V", "V">>
  /\ decoded.values = [values |-> <<99, 99, 99, 97, 98, 98>>,
                       offsets |-> <<0, 3, 4, 6>>]

\* the indices the page's push_valid calls have read so far
IndicesRead ==
  LET n == NumOf(ops, "V") + (IF outcome = "Panic" THEN 1 ELSE 0)
  IN  {page.indices[k] : k \in 1..(IF n <= Len(page.indices) THEN n
                                   ELSE Len(page.indices))}

\* C4: an index i read by push_valid in a dictionary state with i+1 >= the
\* number of dictionary offsets is reported as a CorruptDictionaryIndex
\* error and no panic occurs.
C4_CorruptIndexReported ==
  (state # NoState /\ IsDictKind(state.kind)) =>
    ((\E i \in IndicesRead : i + 1 >= Len(page.dict.offsets))
       => outcome = "CorruptDictionaryIndex")

\* C5: a dictionary-encoded, unfiltered page whose dictionary is not the
\* binary dictionary makes build_state return a TypeMismatch error value:
\* no panic, no dictionary state.
C5_TypeMismatchReported ==
  (/\ built.tag # "None"
   /\ IsDictEncoding(page.encoding)
   /\ ~page.filtered
   /\ page.dict.type \notin {"none", "binary"})
    => built = Err("TypeMismatch") /\ state = NoState

\* C9 as claimed: in any of the four page states the validity bitmask is as
\* long as the number of leaf slots pushed and as the binary buffer.
C9_LockStepAllStates ==
  state # NoState =>
    /\ Len(decoded.validity) = Len(ops)
    /\ Len(decoded.validity) = Binary_len(decoded.values)

\* C9 amended: the binary buffer holds one value per leaf slot pushed; the
\* validity bitmask holds one bit per slot pushed in the optional states
\* (Optional, OptionalDictionary), and one bit per push_null only in the
\* required states (Required, RequiredDictionary), where push_valid appends
\* no bit.
C9_LockStep ==
  state # NoState =>
    /\ Binary_len(decoded.values) = Len(ops)
    /\ Len(decoded.validity) =
         IF IsOptionalKind(state.kind) THEN Len(ops) ELSE NumOf(ops, "N")

C9_Witness ==
  /\ state.kind = "Required"
  /\ NumOf(ops, "V") = 2
  /\ NumOf(ops, "N") = 1
  /\ Len(decoded.validity) = 1
  /\ Binary_len(decoded.values) = 3

OffsetsWellFormed(b) ==
  /\ Len(b.offsets) = Binary_len(b) + 1
  /\ Len(b.offsets) >= 1
  /\ b.offsets[1] = 0
  /\ b.offsets[Len(b.offsets)] = Len(b.values)
  /\ \A i \in 1..(Len(b.offsets) - 1) : b.offsets[i] <= b.offsets[i + 1]

\* C10: after any sequence of pushes the binary buffer has one offset more
\* than values, a first offset of 0, a last offset equal to the byte-buffer
\* length and non-decreasing offsets, and a push never changes the offsets
\* (or bytes) of the values already appended.
C10_Offsets ==
  /\ [](/\ OffsetsWellFormed(decoded.values)
        /\ Binary_len(decoded.values) = Len(ops))
  /\ [][/\ IsPrefix(decoded.values.offsets, decoded.values.offsets')
        /\ IsPrefix(decoded.values.values, decoded.values.values')]_vars

C10_Witness ==
  /\ Len(ops) = MaxPush
  /\ NumOf(ops, "N") >= 1
  /\ Len(decoded.values.values) >= 3
  /\ Len(decoded.values.offsets) = MaxPush + 1

\* C11: decoding an Optional plain page whose shape marks some slots null
\* gives a validity bitmask that is false exactly at the null slots, the
\* empty byte string at every null slot, and at the non-null slots the
\* page's plain-encoded byte strings in their order.
C11_OptionalPlainNulls ==
  (state # NoState /\ state.kind = "Optional") =>
    LET orig == BinaryIterAll(page.buffer)
    IN  /\ Len(decoded.validity) = Len(ops)
        /\ \A i \in 1..Len(ops) :
             /\ decoded.validity[i] = (ops[i] = "V")
             /\ ops[i] = "N" => Binary_get(decoded.values, i) = << >>
        /\ \A k \in 1..NumOf(ops, "V") :
             k <= Len(orig) =>
               Binary_get(decoded.values, NthValid(ops, k)) = orig[k]

C11_Witness ==
  /\ state.kind = "Optional"
  /\ page.buffer = PlainEncode(<<<<97>>, <<98, 98>>>>)
  /\ ops = <<"V", "N", "V">>
  /\ decoded = [values |-> [values |-> <<97, 98, 98>>,
                            offsets |-> <<0, 1, 1, 3>>],
                validity |-> <<TRUE, FALSE, TRUE>>]

\* C12: push_null leaves the page decode state as it was, so in an
\* OptionalDictionary page the j-th non-null slot receives the dictionary
\* entry of the j-th index of the stream however many null slots precede
\* it, and every null slot is the empty value with a false bit.
C12_PushNullKeepsState ==
  /\ [][ops' = Append(ops, "N") => state' = state]_vars
  /\ []((state # NoState /\ state.kind = "OptionalDictionary") =>
          /\ \A i \in 1..Len(ops) :
               ops[i] = "N" => /\ Binary_get(decoded.values, i) = << >>
                               /\ ~decoded.validity[i]
          /\ \A j \in 1..NumOf(ops, "V") :
               j <= Len(page.indices) =>
                 Binary_get(decoded.values, NthValid(ops, j)) =
                   SubSeq(page.dict.values,
                          page.dict.offsets[page.indices[j] + 1] + 1,
                          page.dict.offsets[page.indices[j] + 2]))

C12_Witness ==
  /\ state.kind = "OptionalDictionary"
  /\ page.dict = ExampleDict
  /\ page.indices = <<2, 0>>
  /\ ops = <<"N", "V", "N", "V">>
  /\ decoded = [values |-> [values |-> <<99, 99, 99, 97>>,
                            offsets |-> <<0, 0, 3, 3, 4>>],
                validity |-> <<FALSE, TRUE, FALSE, TRUE>>]

\* C16: push_valid in a plain state takes exactly the next element of the
\* page's value sequence and appends it to the binary buffer; in Optional it
\* appends one true bit, in Required it leaves the bitmask unchanged.
C16_PushValidPlain ==
  [][(/\ ops' = Append(ops, "V")
      /\ state.kind \in {"Optional", "Required"}
      /\ state.values # << >>) =>
       /\ BinaryIterAll(state'.values) = Tail(BinaryIterAll(state.values))
       /\ Binary_len(decoded'.values) = Binary_len(decoded.values) + 1
       /\ Binary_get(decoded'.values, Binary_len(decoded'.values)) =
            Head(BinaryIterAll(state.values))
       /\ decoded'.validity =
            IF state.kind = "Optional" THEN Append(decoded.validity, TRUE)
            ELSE decoded.validity]_vars

C16_Witness ==
  /\ state.kind = "Required"
  /\ page.buffer = PlainEncode(<<<<97>>, <<98, 98>>>>)
  /\ ops = <<"V", "V">>
  /\ state.values = << >>
  /\ decoded = [values |-> [values |-> <<97, 98, 98>>, offsets |-> <<0, 1, 3>>],
                validity |-> << >>]

\* C17: push_null appends exactly one empty byte string (the new last
\* offset is the previous last offset) and exactly one false bit, in each
\* of the four page states.
C17_PushNull ==
  [][ops' = Append(ops, "N") =>
       /\ decoded'.values.values = decoded.values.values
       /\ decoded'.values.offsets =
            Append(decoded.values.offsets,
                   decoded.values.offsets[Len(decoded.values.offsets)])
       /\ decoded'.validity = Append(decoded.validity, FALSE)]_vars

C17_Witness ==
  /\ state.kind = "RequiredDictionary"
  /\ page.dict = ExampleDict
  /\ ops = <<"V", "N">>
  /\ decoded = [values |-> [values |-> <<99, 99, 99>>, offsets |-> <<0, 3, 3>>],
                validity |-> <<FALSE>>]

\* the page's lazy sequence has no element left
Exhausted(st) ==
  IF IsDictKind(st.kind) THEN st.indices = << >> ELSE st.values = << >>

\* C18: a push_valid on an exhausted sequence appends one empty byte string,
\* resolves no dictionary index and, in the optional states, still appends a
\* true bit; every push_valid that returns adds exactly one value.
C18_ExhaustedPushValid ==
  [][ops' = Append(ops, "V") =>
       /\ Binary_len(decoded'.values) = Binary_len(decoded.values) + 1
       /\ Exhausted(state) =>
            /\ decoded'.values.values = decoded.values.values
            /\ Binary_get(decoded'.values, Binary_len(decoded'.values)) = << >>
            /\ state' = state
            /\ decoded'.validity =
                 IF IsOptionalKind(state.kind)
                 THEN Append(decoded.validity, TRUE)
                 ELSE decoded.validity]_vars

C18_Witness ==
  /\ state.kind = "OptionalDictionary"
  /\ page.indices = <<1>>
  /\ state.indices = << >>
  /\ ops = <<"V", "V">>
  /\ decoded.validity = <<TRUE, TRUE>>
  /\ Binary_len(decoded.values) = 2
  /\ Binary_get(decoded.values, 2) = << >>

\* -------------------------------------------------- properties of the driver
\* a result that took a chunk out of the pending queue
HasChunk(r) == r.tag = "Chunk" \/ r.err = "FinishError"

RECURSIVE ConcatRows(_)
ConcatRows(rs) ==
  IF rs = << >> THEN << >> ELSE Head(rs).rows \o ConcatRows(Tail(rs))

RECURSIVE PendingRows(_)
PendingRows(its) ==
  IF its = << >> THEN << >>
  ELSE [i \in 1..Len(Head(its).nested) |-> Head(its).nested[i].id]
         \o PendingRows(Tail(its))

\* C2: a page that carries a row filter makes the call fail with
\* UnsupportedEncodingCombination whatever its encoding, dictionary and
\* optionality, and leaves the pending queue and its accumulators as they
\* were.
C2_FilteredPageRejected ==
  [][(iter'.n = iter.n + 1 /\ page'.filtered) =>
       /\ built' = Err("UnsupportedEncodingCombination")
       /\ result'.tag = "Err"
       /\ result'.err = "UnsupportedEncodingCombination"
       /\ items' = items]_vars

C2_Witness ==
  /\ page.filtered
  /\ page.encoding = "Plain"
  /\ result.err = "UnsupportedEncodingCombination"
  /\ Len(items) = 1
  /\ Binary_len(items[1].decoded.values) >= 1

ExampleRows == <<<<1, 1>>, <<1, 2>>, <<2, 1>>, <<2, 2>>, <<2, 3>>, <<2, 4>>>>

\* C6: with a configured chunk_size c every chunk has exactly c rows except
\* a shorter final flush once the source has ended, and the chunks returned
\* followed by the rows still pending are the decoded pages' rows in their
\* order; chunk_size 3 with pages of 2 and 4 rows gives two chunks of 3.
C6_Chunking ==
  chunk_size # NoChunkSize =>
    /\ \A i \in 1..Len(returned) :
         HasChunk(returned[i]) =>
           \/ Len(returned[i].rows) = chunk_size
           \/ /\ Len(returned[i].rows) < chunk_size
              /\ iter.done
              /\ \A j \in (i + 1)..Len(returned) : returned[j].tag = "None"
    /\ ConcatRows(returned) \o PendingRows(items) = decodedRows
    /\ (/\ chunk_size = 3
        /\ iter = [n |-> 2, done |-> TRUE]
        /\ decodedRows = ExampleRows
        /\ data_type
        /\ items = << >>
        /\ depth = 0)
         => /\ Len(returned) >= 2
            /\ returned[1].tag = "Chunk"
            /\ returned[1].rows = SubSeq(ExampleRows, 1, 3)
            /\ returned[2].tag = "Chunk"
            /\ returned[2].rows = SubSeq(ExampleRows, 4, 6)
            /\ \A j \in 3..Len(returned) : returned[j].tag = "None"

C6_Witness ==
  /\ chunk_size = 3
  /\ iter.n = 2
  /\ decodedRows = ExampleRows
  /\ Len(returned) = 2
  /\ returned[1].tag = "Chunk" /\ Len(returned[1].rows) = 3
  /\ returned[2].tag = "Chunk" /\ Len(returned[2].rows) = 3
  /\ items = << >>

\* C7: once next has returned None, every later call returns None, and
\* there is no chunk in the pending queue to pull.
C7_ExhaustedSticky ==
  \A i \in 1..Len(returned) :
    returned[i].tag = "None" =>
      /\ items = << >>
      /\ \A j \in (i + 1)..Len(returned) : returned[j].tag = "None"

C7_Witness ==
  /\ NumReturned("None") = MaxExhaustedCalls
  /\ NumReturned("Chunk") >= 2

\* C8: after next has returned an error, no later call returns a chunk.
C8_TerminatedAfterError ==
  \A i \in 1..Len(returned) :
    returned[i].tag = "Err" =>
      \A j \in (i + 1)..Len(returned) : returned[j].tag # "Chunk"

\* the values of a binary buffer, in order
BinaryValues(b) == [i \in 1..Binary_len(b) |-> Binary_get(b, i)]

RECURSIVE ConcatValues(_)
ConcatValues(cs) ==
  IF cs = << >> THEN << >>
  ELSE BinaryValues(Head(cs).decoded.values) \o ConcatValues(Tail(cs))

RECURSIVE ConcatBits(_)
ConcatBits(cs) ==
  IF cs = << >> THEN << >>
  ELSE Head(cs).decoded.validity \o ConcatBits(Tail(cs))

\* the values a page holds: its plain values, or its indices' entries
Payload(p) ==
  IF p.encoding = "Plain" THEN BinaryIterAll(p.buffer)
  ELSE [k \in 1..Len(p.indices) |->
          SubSeq(p.dict.values, p.dict.offsets[p.indices[k] + 1] + 1,
                 p.dict.offsets[p.indices[k] + 2])]

RECURSIVE AllSlots(_)
AllSlots(rows) == IF rows = << >> THEN << >> ELSE Head(rows) \o AllSlots(Tail(rows))

\* the slots a page's nested shape asks for, row after row: the value of
\* each slot and the bits the page adds to the bitmask
SlotValues(p) ==
  LET slots == AllSlots(p.rows)
  IN  [i \in 1..Len(slots) |->
         LET k == Cardinality({j \in 1..i : slots[j]})
         IN  IF slots[i] /\ k <= Len(Payload(p)) THEN Payload(p)[k] ELSE << >>]

IsNullSlot(b) == ~b

SlotBits(p) ==
  IF p.optional THEN AllSlots(p.rows)
  ELSE SelectSeq(AllSlots(p.rows), IsNullSlot)

RECURSIVE PagesValues(_)
PagesValues(ps) ==
  IF ps = << >> THEN << >> ELSE SlotValues(Head(ps)) \o PagesValues(Tail(ps))

RECURSIVE PagesBits(_)
PagesBits(ps) ==
  IF ps = << >> THEN << >> ELSE SlotBits(Head(ps)) \o PagesBits(Tail(ps))

\* C13: the values and validity bits of the chunks taken by successive calls
\* of next, followed by those still pending, are the slots of the decoded
\* pages, page after page and row after row: none lost, duplicated or
\* reordered across chunk boundaries.
C13_ArrivalOrder ==
  /\ ConcatValues(returned) \o ConcatValues(items) = PagesValues(decodedPages)
  /\ ConcatBits(returned) \o ConcatBits(items) = PagesBits(decodedPages)

C13_Witness ==
  /\ chunk_size = 3
  /\ is_optional
  /\ Len(decodedPages) = 2
  /\ decodedPages[1].encoding = "Plain" /\ Len(decodedPages[1].rows) = 2
  /\ decodedPages[2].encoding = "RleDictionary" /\ Len(decodedPages[2].rows) = 4
  /\ NumReturned("Chunk") = 2
  /\ items = << >>
  /\ ConcatValues(returned) =
       <<<<97>>, <<98, 98>>, << >>, <<99, 99, 99>>, <<97>>, << >>, <<98, 98>>>>
  /\ ConcatBits(returned) = <<TRUE, TRUE, FALSE, TRUE, TRUE, FALSE, TRUE>>

\* C14: during one call of next the number of nested activations of next
\* stays at one however many pages give More.
C14_DepthStaysOne ==
  /\ depth <= 1
  /\ \A i \in 1..Len(returned) : returned[i].depth = 1

\* C15: with a finite source every call of next ends: a run of More
\* results ends, each More step having pulled one page of the source.
C15_CallEnds ==
  /\ [](depth < MaxDepth /\ depth <= iter.n)
  /\ (depth >= 1) ~> (depth = 0)

C15_Witness ==
  /\ depth = 0
  /\ iter = [n |-> 2, done |-> TRUE]
  /\ Len(returned) = 1
  /\ returned[1].depth = 3
  /\ returned[1].tag = "Chunk"
  /\ Len(returned[1].rows) = 2

\* the chunks taken out of the queue so far
ChunksReturned == SelectSeq(returned, HasChunk)

\* C19: with no chunk size configured every chunk holds exactly the rows of
\* one page: chunk k is the whole k-th decoded page, nothing stays pending
\* between calls, and there are as many chunks as decoded pages.
C19_OneChunkPerPage ==
  (chunk_size = NoChunkSize /\ depth = 0) =>
    /\ items = << >>
    /\ Len(ChunksReturned) = Len(decodedPages)
    /\ \A k \in 1..Len(ChunksReturned) :
         /\ Len(ChunksReturned[k].rows) = Len(decodedPages[k].rows)
         /\ \A i \in 1..Len(ChunksReturned[k].rows) :
              /\ ChunksReturned[k].rows[i][1] = ChunksReturned[k].rows[1][1]
              /\ ChunksReturned[k].rows[i][2] = i

C19_Witness ==
  /\ chunk_size = NoChunkSize
  /\ Len(decodedPages) = MaxPages
  /\ NumReturned("Chunk") = MaxPages
  /\ Len(returned[1].rows) = 4
  /\ Len(returned[2].rows) = 1
  /\ items = << >>

====
